---- MODULE Spec2Model ----
\* Model of poloniex/__init__.py: the Poloniex client object, its nonce
\* property, the coach it paces its requests with and the retry-wrapped
\* methods __call__ and marketTradeHist, run by concurrent caller threads
\* against one shared client instance.
EXTENDS Integers, Sequences, FiniteSets, Bags, TLC

\* ------------------------------------------------------------------ bounds
NThreads == 2
MaxCalls == 2
MaxFaults == 5
ConcFaults == 1
Seed == 0
MinInterval == 1

Threads == 1..NThreads

\* ------------------------------------------------------- program constants
\* A schedule that has lost its last delay.
retryDelaysShort == <<0, 2, 5>>

retryDelays == <<0, 2, 5, 30>>

NonceStep == 42

PUBLIC_COMMANDS ==
    { "returnTicker", "return24hVolume", "returnOrderBook",
      "returnTradeHistory", "returnChartData", "returnCurrencies",
      "returnLoanOrders" }

PRIVATE_COMMANDS ==
    { "returnBalances", "returnCompleteBalances", "returnDepositAddresses",
      "generateNewAddress", "returnDepositsWithdrawals", "returnOpenOrders",
      "returnTradeHistory", "returnAvailableAccountBalances",
      "returnTradableBalances", "returnOpenLoanOffers", "returnOrderTrades",
      "returnActiveLoans", "returnLendingHistory", "createLoanOffer",
      "cancelLoanOffer", "toggleAutoRenew", "buy", "sell", "cancelOrder",
      "moveOrder", "withdraw", "returnFeeInfo", "transferBalance",
      "returnMarginAccountSummary", "marginBuy", "marginSell",
      "getMarginPosition", "closeMarginPosition" }

\* Commands whose execution by the exchange is not idempotent.
SideEffecting == { "buy", "sell", "withdraw" }

\* --------------------------------------------------------------- dicts
\* A Python dict is a sequence of <<key, value>> pairs in insertion order;
\* assigning to an existing key keeps its position.
EmptyDict == << >>

DictKeys(d) == { d[i][1] : i \in 1..Len(d) }

DictHas(d, k) == k \in DictKeys(d)

DictGet(d, k) == d[CHOOSE i \in 1..Len(d) : d[i][1] = k][2]

DictSet(d, k, v) ==
    IF DictHas(d, k)
    THEN [i \in 1..Len(d) |-> IF d[i][1] = k THEN <<k, v>> ELSE d[i]]
    ELSE Append(d, <<k, v>>)

\* str() of a dict value: the nonce is an int, every other value a string.
StrOf(k, v) == IF k = "nonce" THEN ToString(v) ELSE v

\* urlencode(args): the key=value pairs in dict order, values as strings.
Urlencode(d) == [i \in 1..Len(d) |-> <<d[i][1], StrOf(d[i][1], d[i][2])>>]

\* ------------------------------------------------------------ the callers
\* The methods the callers use: wrappers, which call __call__ with a command
\* (explicit = FALSE is a call that passes no args, so that __call__ runs on
\* its default args={} object), and marketTradeHist, which sends the public
\* returnTradeHistory itself.
ApiCalls ==
    { [method |-> "__call__", command |-> "returnTicker", explicit |-> FALSE,
       given |-> EmptyDict],
      [method |-> "__call__", command |-> "returnLoanOrders",
       explicit |-> TRUE, given |-> << <<"currency", "BTC">> >>],
      [method |-> "__call__", command |-> "returnBalances", explicit |-> FALSE,
       given |-> EmptyDict],
      [method |-> "__call__", command |-> "buy", explicit |-> TRUE,
       given |-> << <<"currencyPair", "BTC_ETH">>, <<"rate", "0.1">>,
                    <<"amount", "1">> >>],
      [method |-> "__call__", command |-> "returnTradeHistory",
       explicit |-> TRUE, given |-> << <<"currencyPair", "ALL">> >>],
      [method |-> "__call__", command |-> "notARealCommand",
       explicit |-> FALSE, given |-> EmptyDict],
      [method |-> "marketTradeHist", command |-> "returnTradeHistory",
       explicit |-> TRUE, given |-> << <<"currencyPair", "BTC_ETH">> >>] }

\* ------------------------------------------------------------------ state
VARIABLES
    Key,          \* self.Key is truthy
    Secret,       \* self.Secret is truthy
    coach,        \* self.coach is truthy
    pacer,        \* the coach: time since its last release, capped at
                  \* MinInterval, and the time between its last two releases
    _nonce,       \* self._nonce
    defaultArgs,  \* the one dict object bound to __call__'s default args={}
    frame,        \* per thread: the running call and its __call__ frame
    wire,         \* the network: the last request sent, the nonces sent before
    issued,       \* bag of the values the nonce property has returned
    remoteLast,   \* exchange side: greatest nonce accepted for this key
    faults,       \* RequestExceptions raised so far
    ncalls,       \* calls started so far
    callers,      \* per thread: the calls it may make on the client
    faultBudget   \* RequestExceptions the network may raise

vars == <<Key, Secret, coach, pacer, _nonce, defaultArgs, frame, wire, issued,
          remoteLast, faults, ncalls, callers, faultBudget>>

IdleFrame ==
    [ pc |-> "idle", method |-> "none", command |-> "none", explicit |-> FALSE,
      given |-> EmptyDict, own |-> EmptyDict, delays |-> << >>,
      attempts |-> 0, slept |-> << >>, waits |-> 0, drawn |-> 0, sent |-> 0,
      served |-> 0, tmp |-> 0, after |-> 0, nonce |-> 0, prevNonce |-> 0,
      postData |-> << >>, status |-> 0, exc |-> "none", msg |-> "none",
      prevExc |-> "none", outcome |-> "none", nonce0 |-> 0,
      decoded |-> FALSE, jsonout |-> EmptyDict, result |-> EmptyDict ]

NoRequest ==
    [ tid |-> 0, method |-> "none", command |-> "none", given |-> EmptyDict,
      nonce |-> 0, params |-> EmptyDict, signed |-> << >> ]

\* The dict object that the name args denotes in thread t's frame.
Args(t) == IF frame[t].explicit THEN frame[t].own ELSE defaultArgs

\* The client after __init__, not yet called.
Constructed ==
    /\ Key \in BOOLEAN
    /\ Secret \in BOOLEAN
    /\ coach \in BOOLEAN
    /\ pacer = [sinceLastPermitted |-> MinInterval, lastGap |-> MinInterval]
    /\ _nonce = Seed
    /\ defaultArgs = EmptyDict
    /\ frame = [t \in Threads |-> IdleFrame]
    /\ wire = [last |-> NoRequest, before |-> {}]
    /\ issued = EmptyBag
    /\ remoteLast = 0
    /\ faults = 0
    /\ ncalls = 0

\* Concurrent callers on one shared client; the network raises at most
\* ConcFaults times.
Init ==
    /\ Constructed
    /\ callers = [t \in Threads |-> ApiCalls]
    /\ faultBudget = ConcFaults

\* One caller, calling sequentially; the network raises at most MaxFaults
\* times, enough to use up the retry schedule.
SeqInit ==
    /\ Constructed
    /\ callers = [t \in Threads |-> IF t = 1 THEN ApiCalls ELSE {}]
    /\ faultBudget = MaxFaults

\* One call of each kind: a public and a private command, a name in neither
\* registry, and marketTradeHist.
EachKind ==
    { c \in ApiCalls :
        \/ c.method = "marketTradeHist"
        \/ c.command \in { "returnTicker", "buy", "notARealCommand" } }

\* One caller that makes calls of each kind.
EachKindInit ==
    /\ Constructed
    /\ callers = [t \in Threads |-> IF t = 1 THEN EachKind ELSE {}]
    /\ faultBudget = MaxFaults

\* The calls of an account thread: the ticker and the balances, both
\* through __call__ without args.
Account ==
    { c \in ApiCalls : c.command \in { "returnTicker", "returnBalances" } }

\* The calls of a market-data thread: marketTradeHist.
Market == { c \in ApiCalls : c.method = "marketTradeHist" }

\* One account thread and market-data threads, concurrently on one shared
\* client with credentials and a coach.
PacedInit ==
    /\ Constructed
    /\ Key /\ Secret /\ coach
    /\ callers = [t \in Threads |-> IF t = 1 THEN Account ELSE Market]
    /\ faultBudget = ConcFaults

\* ------------------------------------------------------- exceptions
\* requests' ConnectionError and Timeout are RequestExceptions; PoloniexError
\* and json's ValueError are not.
IsRequestException(exc) == exc \in { "ConnectionError", "Timeout" }

\* An exception that is dropped: the method returns None.
RaiseSwallowed(f, exc, msg) ==
    [f EXCEPT !.pc = "done", !.outcome = "return", !.postData = << >>]

\* raise exc(msg) out of the body of the method: the attempt is over.
Raise(f, exc, msg) ==
    [f EXCEPT !.pc = "raised", !.exc = exc, !.msg = msg, !.postData = << >>]

\* args[k] = v in thread t's frame, on whichever dict object args denotes;
\* f is the frame the thread goes on with.
StoreArgs(t, k, v, f) ==
    IF frame[t].explicit
    THEN /\ frame' = [frame EXCEPT ![t] = [f EXCEPT !.own = DictSet(@, k, v)]]
         /\ UNCHANGED defaultArgs
    ELSE /\ frame' = [frame EXCEPT ![t] = f]
         /\ defaultArgs' = DictSet(defaultArgs, k, v)

\* ------------------------------------------------------------ the callers
\* A caller thread calls a method, which builds its argument dict and enters
\* the retry-wrapped __call__ or marketTradeHist: the first invocation.
StartCall(t, c) ==
    /\ c \in callers[t]
    /\ frame[t].pc \in { "idle", "done" }
    /\ ncalls < MaxCalls
    /\ ncalls' = ncalls + 1
    /\ frame' = [frame EXCEPT ![t] =
          [IdleFrame EXCEPT !.pc = "wait", !.method = c.method,
                            !.command = c.command,
                            !.explicit = c.explicit, !.given = c.given,
                            !.own = c.given, !.delays = retryDelays,
                            !.attempts = 1, !.nonce0 = _nonce]]
    /\ UNCHANGED <<Key, Secret, coach, pacer, _nonce, defaultArgs, wire,
                   issued, remoteLast, faults, callers, faultBudget>>

\* ------------------------------------------------------------ the coach
\* A coach that releases its callers at once.
PermitsAlways(elapsed) == TRUE

\* wait() returns once MinInterval has elapsed since the coach last released
\* a caller.
Permits(elapsed) == elapsed >= MinInterval

\* The coach after it has released a caller: it records the release.
Released(p) == [sinceLastPermitted |-> 0, lastGap |-> p.sinceLastPermitted]

\* Time passes on the coach's clock.
Tick ==
    /\ coach
    /\ pacer.sinceLastPermitted < MinInterval
    /\ pacer' = [pacer EXCEPT !.sinceLastPermitted = @ + 1]
    /\ UNCHANGED <<Key, Secret, coach, _nonce, defaultArgs, frame, wire,
                   issued, remoteLast, faults, ncalls, callers, faultBudget>>

\* -------------------------------------------- __call__, marketTradeHist
\* A method that calls wait() in its first invocation only.
WaitInvokedFirstOnly(f, enabled) == enabled /\ f.attempts = 1

\* A method that calls wait() once its command is known to be in a registry.
WaitInvokedIfValid(f, enabled) ==
    enabled /\ f.command \in PUBLIC_COMMANDS \cup PRIVATE_COMMANDS

\* if self.coach: the invocation calls wait().
WaitInvoked(f, enabled) == enabled

\* The statement after the coach's in the method's body.
AfterWait(f) == IF f.method = "__call__" THEN "setcmd" ELSE "mget"

\* if self.coach: self.coach.wait(), the first statement of both methods.
\* The thread stays here until the coach releases it.
CoachWait(t) ==
    /\ frame[t].pc = "wait"
    /\ IF WaitInvoked(frame[t], coach)
       THEN /\ Permits(pacer.sinceLastPermitted)
            /\ pacer' = Released(pacer)
            /\ frame' = [frame EXCEPT ![t].pc = AfterWait(frame[t]),
                                      ![t].waits = @ + 1]
       ELSE /\ pacer' = pacer
            /\ frame' = [frame EXCEPT ![t].pc = AfterWait(frame[t])]
    /\ UNCHANGED <<Key, Secret, coach, _nonce, defaultArgs, wire, issued,
                   remoteLast, faults, ncalls, callers, faultBudget>>

\* The chain without its else branch: an unknown command goes on as public.
VisibilityUnknownAsPublic(command) ==
    IF command \in PRIVATE_COMMANDS THEN "private" ELSE "public"

\* The chain with the public registry tested first.
VisibilityPublicFirst(command) ==
    IF command \in PUBLIC_COMMANDS THEN "public"
    ELSE IF command \in PRIVATE_COMMANDS THEN "private"
    ELSE "invalid"

\* The branch of the if/elif/else chain that a command takes: the private
\* registry is tested first.
Visibility(command) ==
    IF command \in PRIVATE_COMMANDS THEN "private"
    ELSE IF command \in PUBLIC_COMMANDS THEN "public"
    ELSE "invalid"

\* The private branch without its check for keys.
DispatchedKeysUnchecked(f, vis, hasKeys) ==
    CASE vis = "private" -> [f EXCEPT !.pc = "nonce_load"]
      [] vis = "public" -> [f EXCEPT !.pc = "get"]
      [] OTHER -> Raise(f, "PoloniexError", "Invalid Command!")

\* The frame after the branch on the command and, in the private branch, the
\* check for keys.
Dispatched(f, vis, hasKeys) ==
    CASE vis = "private" /\ ~hasKeys ->
             Raise(f, "PoloniexError", "A Key and Secret needed!")
      [] vis = "private" /\ hasKeys -> [f EXCEPT !.pc = "nonce_load"]
      [] vis = "public" -> [f EXCEPT !.pc = "get"]
      [] OTHER -> Raise(f, "PoloniexError", "Invalid Command!")

\* args['command'] = command, then the branch on the command (which reads
\* nothing another thread writes).
SetCommand(t) ==
    /\ frame[t].pc = "setcmd"
    /\ StoreArgs(t, "command", frame[t].command,
          Dispatched(frame[t], Visibility(frame[t].command), Key /\ Secret))
    /\ UNCHANGED <<Key, Secret, coach, pacer, _nonce, wire, issued,
                   remoteLast, faults, ncalls, callers, faultBudget>>

\* --------------------------------------------------------- nonce property
\* self._nonce += 42 is a load, an add and a store; return self._nonce loads
\* the attribute again.  Threads may be switched between any two of them.
MaxIssued == IF issued = EmptyBag THEN 0
             ELSE CHOOSE v \in BagToSet(issued) :
                      \A w \in BagToSet(issued) : w <= v

NonceLoad(t) ==
    /\ frame[t].pc = "nonce_load"
    /\ frame' = [frame EXCEPT ![t].pc = "nonce_store", ![t].tmp = _nonce,
                              ![t].after = MaxIssued]
    /\ UNCHANGED <<Key, Secret, coach, pacer, _nonce, defaultArgs, wire,
                   issued, remoteLast, faults, ncalls, callers, faultBudget>>

\* A counter that steps by one.
IncrementedByOne(n) == n + 1

\* self._nonce += 42
Incremented(n) == n + NonceStep

NonceStore(t) ==
    /\ frame[t].pc = "nonce_store"
    /\ _nonce' = Incremented(frame[t].tmp)
    /\ frame' = [frame EXCEPT ![t].pc = "nonce_return"]
    /\ UNCHANGED <<Key, Secret, coach, pacer, defaultArgs, wire, issued,
                   remoteLast, faults, ncalls, callers, faultBudget>>

NonceReturn(t) ==
    /\ frame[t].pc = "nonce_return"
    /\ issued' = issued (+) SetToBag({_nonce})
    /\ frame' = [frame EXCEPT ![t].pc = "setnonce", ![t].nonce = _nonce,
                              ![t].prevNonce = frame[t].nonce,
                              ![t].drawn = @ + 1, ![t].tmp = 0]
    /\ UNCHANGED <<Key, Secret, coach, pacer, _nonce, defaultArgs, wire,
                   remoteLast, faults, ncalls, callers, faultBudget>>

\* args['nonce'] = <the value the property returned>
SetNonce(t) ==
    /\ frame[t].pc = "setnonce"
    /\ StoreArgs(t, "nonce", frame[t].nonce,
                 [frame[t] EXCEPT !.pc = "sign", !.after = 0])
    /\ UNCHANGED <<Key, Secret, coach, pacer, _nonce, wire, issued,
                   remoteLast, faults, ncalls, callers, faultBudget>>

\* postData = _urlencode(args); sign = _new(Secret, postData, _sha512)
Sign(t) ==
    /\ frame[t].pc = "sign"
    /\ frame' = [frame EXCEPT ![t].pc = "post",
                              ![t].postData = Urlencode(Args(t))]
    /\ UNCHANGED <<Key, Secret, coach, pacer, _nonce, defaultArgs, wire,
                   issued, remoteLast, faults, ncalls, callers, faultBudget>>

\* ------------------------------------------------------------ transport
\* What can become of one HTTP request (requests' _post/_get with a timeout):
\*   ConnectionError  raised, the request never reached the exchange
\*   Timeout          raised, the request reached the exchange but no
\*                    response came back within self.timeout
\*   ok / error       a 200 response, JSON without / with an 'error' field
\*   http500          a 5xx response with an HTML body; requests returns it
\*                    like any other response
TransportOutcomes == { "ConnectionError", "Timeout", "ok", "error", "http500" }

Delivered(o) == o # "ConnectionError"

Response(o) ==
    CASE o = "ok" -> [status |-> 200, body |-> "json_ok"]
      [] o = "error" -> [status |-> 200, body |-> "json_error"]
      [] o = "http500" -> [status |-> 500, body |-> "not_json"]

\* json.loads(ret.text) raises ValueError on a body that is not JSON.
IsJson(body) == body # "not_json"

\* json.loads(ret.text): the payload of a JSON body, floats as strings.
Loads(body) ==
    IF body = "json_error" THEN << <<"error", "Invalid command.">> >>
    ELSE << <<"BTC", "0.5">>, <<"ETH", "12.0">> >>

\* The nonce a request carries, 0 if none.
Carried(params) ==
    IF DictHas(params, "nonce") THEN DictGet(params, "nonce") ELSE 0

\* The exchange accepts a private request whose nonce is greater than the
\* last one it accepted for the key and whose Sign header matches the body.
Accepts(params, signed) ==
    /\ Carried(params) > remoteLast
    /\ signed = Urlencode(params)

\* The exchange carries the command out (places the order).
Executes(o, params, signed) ==
    o \in { "ok", "Timeout" } /\ Accepts(params, signed)

\* A decoder that returns the payload whether or not it has an 'error'.
DecodedErrorReturned(f, ret) ==
    IF ~IsJson(ret.body)
    THEN Raise([f EXCEPT !.status = ret.status], "ValueError", "not JSON")
    ELSE [f EXCEPT !.status = ret.status, !.decoded = TRUE,
                   !.jsonout = Loads(ret.body), !.pc = "done",
                   !.outcome = "return", !.result = Loads(ret.body),
                   !.postData = << >>]

\* jsonout = _loads(ret.text, ...); if 'error' in jsonout: raise
\* PoloniexError(jsonout['error']); return jsonout
Decoded(f, ret) ==
    IF ~IsJson(ret.body)
    THEN Raise([f EXCEPT !.status = ret.status], "ValueError", "not JSON")
    ELSE LET jsonout == Loads(ret.body)
             g == [f EXCEPT !.status = ret.status, !.decoded = TRUE,
                            !.jsonout = jsonout]
         IN  IF DictHas(jsonout, "error")
             THEN Raise(g, "PoloniexError", DictGet(jsonout, "error"))
             ELSE [g EXCEPT !.pc = "done", !.outcome = "return",
                            !.result = jsonout, !.postData = << >>]

\* The frame after the transport call and what follows it in the body of
\* the method: the RequestException raised, or the response decoded.
Transported(f, o) ==
    IF IsRequestException(o)
    THEN Raise([f EXCEPT !.sent = @ + 1], o, "transport")
    ELSE Decoded([f EXCEPT !.sent = @ + 1], Response(o))

\* The network after one more request.
Sent(req) ==
    [ last |-> req,
      before |-> IF wire.last.method = "POST"
                 THEN wire.before \cup { Carried(wire.last.params) }
                 ELSE wire.before ]

\* ret = _post('https://poloniex.com/tradingApi', data=args, headers=...)
Post(t, o) ==
    LET params == Args(t)
        signed == frame[t].postData
    IN  /\ frame[t].pc = "post"
        /\ IsRequestException(o) => faults < faultBudget
        /\ o = "ok" => Accepts(params, signed)
        /\ faults' = IF IsRequestException(o) THEN faults + 1 ELSE faults
        /\ wire' = Sent([tid |-> t, method |-> "POST",
                         command |-> frame[t].command,
                         given |-> frame[t].given, nonce |-> frame[t].nonce,
                         params |-> params, signed |-> signed])
        /\ remoteLast' = IF Delivered(o) /\ o # "http500"
                            /\ Accepts(params, signed)
                         THEN Carried(params) ELSE remoteLast
        /\ frame' = [frame EXCEPT ![t] =
              Transported([frame[t] EXCEPT !.served =
                  IF Executes(o, params, signed) THEN @ + 1 ELSE @], o)]
        /\ UNCHANGED <<Key, Secret, coach, pacer, _nonce, defaultArgs, issued,
                       ncalls, callers, faultBudget>>

\* ret = _get('https://poloniex.com/public?' + _urlencode(args))
Get(t, o) ==
    /\ frame[t].pc = "get"
    /\ IsRequestException(o) => faults < faultBudget
    /\ faults' = IF IsRequestException(o) THEN faults + 1 ELSE faults
    /\ wire' = Sent([tid |-> t, method |-> "GET",
                     command |-> frame[t].command, given |-> frame[t].given,
                     nonce |-> 0, params |-> Args(t), signed |-> << >>])
    /\ frame' = [frame EXCEPT ![t] = Transported(frame[t], o)]
    /\ UNCHANGED <<Key, Secret, coach, pacer, _nonce, defaultArgs, issued,
                   remoteLast, ncalls, callers, faultBudget>>

\* ------------------------------------------------------ marketTradeHist
\* args = {'command': 'returnTradeHistory', 'currencyPair': str(pair).upper()}
\* is a dict of the invocation's own; start and end are left out.
MarketArgs(given) ==
    << <<"command", "returnTradeHistory">>,
       <<"currencyPair", DictGet(given, "currencyPair")>> >>

\* ret = _get('https://poloniex.com/public?' + _urlencode(args))
MarketGet(t, o) ==
    /\ frame[t].pc = "mget"
    /\ IsRequestException(o) => faults < faultBudget
    /\ faults' = IF IsRequestException(o) THEN faults + 1 ELSE faults
    /\ wire' = Sent([tid |-> t, method |-> "GET",
                     command |-> "returnTradeHistory",
                     given |-> frame[t].given, nonce |-> 0,
                     params |-> MarketArgs(frame[t].given), signed |-> << >>])
    /\ frame' = [frame EXCEPT ![t] = Transported(frame[t], o)]
    /\ UNCHANGED <<Key, Secret, coach, pacer, _nonce, defaultArgs, issued,
                   remoteLast, ncalls, callers, faultBudget>>

\* ------------------------------------------------------ retry decorator
\* @retry(delays=retryDelays, exception=RequestException): an exception of
\* the given class is caught and, while a delay remains, slept on and the
\* function invoked again with the same arguments.
\* A decorator given exception=Exception.
CaughtAnyException(exc) == TRUE

\* The exceptions the decorator catches: exception=RequestException.
Caught(exc) == IsRequestException(exc)

Retryable(f) == Caught(f.exc) /\ f.delays # << >>

Retry(t) ==
    /\ frame[t].pc = "raised"
    /\ Retryable(frame[t])
    /\ frame' = [frame EXCEPT ![t].pc = "wait",
                              ![t].slept = Append(@, Head(frame[t].delays)),
                              ![t].delays = Tail(@),
                              ![t].attempts = @ + 1,
                              ![t].prevExc = frame[t].exc,
                              ![t].status = 0, ![t].decoded = FALSE,
                              ![t].jsonout = EmptyDict,
                              ![t].exc = "none", ![t].msg = "none"]
    /\ UNCHANGED <<Key, Secret, coach, pacer, _nonce, defaultArgs, wire,
                   issued, remoteLast, faults, ncalls, callers, faultBudget>>

\* Any other exception, and a RequestException once the delays are used up,
\* goes on to the caller.
Propagate(t) ==
    /\ frame[t].pc = "raised"
    /\ ~Retryable(frame[t])
    /\ frame' = [frame EXCEPT ![t].pc = "done", ![t].outcome = "raise"]
    /\ UNCHANGED <<Key, Secret, coach, pacer, _nonce, defaultArgs, wire,
                   issued, remoteLast, faults, ncalls, callers, faultBudget>>

\* ---------------------------------------------------------- specification
\* One step of thread t inside a call.
Step(t) ==
    \/ CoachWait(t)
    \/ SetCommand(t)
    \/ NonceLoad(t)
    \/ NonceStore(t)
    \/ NonceReturn(t)
    \/ SetNonce(t)
    \/ Sign(t)
    \/ \E o \in TransportOutcomes : Post(t, o)
    \/ \E o \in TransportOutcomes : Get(t, o)
    \/ \E o \in TransportOutcomes : MarketGet(t, o)
    \/ Retry(t)
    \/ Propagate(t)

Next ==
    \/ \E t \in Threads : \E c \in ApiCalls : StartCall(t, c)
    \/ \E t \in Threads : Step(t)
    \/ Tick

Spec == Init /\ [][Next]_vars

SeqSpec == SeqInit /\ [][Next]_vars

PacedSpec == PacedInit /\ [][Next]_vars

\* One caller whose thread keeps running, on a network whose requests return
\* or time out (every outcome of Post, Get and MarketGet is one of the two),
\* while time passes on the coach's clock.
FairSeqSpec ==
    /\ EachKindInit
    /\ [][Next]_vars
    /\ \A t \in Threads : WF_vars(Step(t))
    /\ WF_vars(Tick)

\* ================================================================ claims
Done(t) == frame[t].pc = "done"

\* Thread t is in, or has finished, a call of __call__.
Called(t) == frame[t].pc # "idle" /\ frame[t].method = "__call__"

\* Thread t is in, or has finished, a call of either method.
Entered(t) == frame[t].pc # "idle"

\* C1: the values the nonce property returns are pairwise distinct, and a
\* value returned by a call that started after another call had completed is
\* greater than the value that call returned.
C1_NoncesDistinctAndIncreasing ==
    /\ \A v \in BagToSet(issued) : CopiesIn(v, issued) = 1
    /\ \A t \in Threads :
          frame[t].pc = "setnonce" => frame[t].nonce > frame[t].after

\* C2: private requests go out in nonce order: a POST carries a nonce greater
\* than the nonce of every POST sent before it.
C2_SentInNonceOrder ==
    wire.last.method = "POST" =>
        \A n \in wire.before : n < Carried(wire.last.params)

\* C3: one call of a side-effecting command is carried out by the exchange
\* at most once.
C3_ExecutedAtMostOnce ==
    \A t \in Threads :
        frame[t].command \in SideEffecting => frame[t].served <= 1

\* C4: a call of a command in neither registry puts nothing on the network,
\* is invoked once and ends with the invalid-command error.
C4_InvalidCommandRejected ==
    \A t \in Threads :
        (Called(t) /\ frame[t].command \notin PUBLIC_COMMANDS
                   /\ frame[t].command \notin PRIVATE_COMMANDS) =>
            /\ frame[t].sent = 0
            /\ frame[t].attempts = 1
            /\ frame[t].pc \in { "wait", "setcmd", "raised", "done" }
            /\ frame[t].pc \in { "raised", "done" } =>
                  /\ frame[t].exc = "PoloniexError"
                  /\ frame[t].msg = "Invalid Command!"
            /\ Done(t) => frame[t].outcome = "raise"

C4_Witness ==
    \E t \in Threads :
        /\ Done(t)
        /\ frame[t].command = "notARealCommand"
        /\ frame[t].msg = "Invalid Command!"
        /\ frame[t].sent = 0

\* A call of a private command on a client without both key and secret.
Uncredentialed(t) ==
    /\ Called(t)
    /\ frame[t].command \in PRIVATE_COMMANDS
    /\ ~(Key /\ Secret)

C6_RetrySchedule ==
    \A t \in Threads :
        Called(t) =>
            /\ frame[t].attempts = Len(frame[t].slept) + 1
            /\ frame[t].attempts <= 5
            /\ frame[t].slept = SubSeq(<<0, 2, 5, 30>>, 1, Len(frame[t].slept))
            /\ (Done(t) /\ frame[t].outcome = "raise"
                        /\ frame[t].exc \in { "ConnectionError", "Timeout" }) =>
                  /\ frame[t].attempts = 5
                  /\ frame[t].slept = <<0, 2, 5, 30>>
            /\ (frame[t].pc = "raised"
                  /\ frame[t].exc \in { "ConnectionError", "Timeout" }
                  /\ frame[t].attempts < 5) => ENABLED Retry(t)

C6_Witness ==
    \E t \in Threads :
        /\ Done(t)
        /\ frame[t].outcome = "return"
        /\ frame[t].attempts = 5
        /\ frame[t].slept = <<0, 2, 5, 30>>

\* The way an attempt ended is a transport failure that requests raises.
Transient(exc) == exc \in { "ConnectionError", "Timeout" }

\* C7, as claimed: an invocation follows only an attempt that ended in a
\* transient transport failure, and every attempt that ended in a connection
\* error, a timeout or a 5xx response while delays remained is followed by
\* another invocation.
C7_RetriedIffTransportFailure ==
    \A t \in Threads :
        /\ frame[t].attempts > 1 => Transient(frame[t].prevExc)
        /\ (Done(t) /\ (Transient(frame[t].exc) \/ frame[t].status >= 500)) =>
              frame[t].delays = << >>

\* C7, amended: an invocation follows only an attempt that ended in a
\* RequestException (connection error, timeout); an attempt that ended in
\* invalid command, missing credentials, an exchange-reported error or an
\* undecodable body, which is where a 5xx response ends, is the call's last;
\* and every attempt that ended in a RequestException while delays remained
\* is followed by another invocation.
C7_RetriedIffRequestException ==
    \A t \in Threads :
        /\ frame[t].attempts > 1 => Transient(frame[t].prevExc)
        /\ (frame[t].pc = "raised" /\ ~Transient(frame[t].exc)) =>
              ~ENABLED Retry(t) /\ ENABLED Propagate(t)
        /\ (frame[t].pc = "raised" /\ Transient(frame[t].exc)
                                   /\ frame[t].delays # << >>) =>
              ENABLED Retry(t) /\ ~ENABLED Propagate(t)
        /\ (Done(t) /\ frame[t].outcome = "raise"
                    /\ Transient(frame[t].exc)) => frame[t].delays = << >>
        /\ (Done(t) /\ frame[t].status >= 500) =>
              frame[t].outcome = "raise" /\ frame[t].exc = "ValueError"

C7_Witness ==
    \E t \in Threads :
        /\ Done(t)
        /\ frame[t].attempts = 2
        /\ frame[t].prevExc = "Timeout"
        /\ frame[t].status = 500
        /\ frame[t].delays # << >>

\* C8: each attempt of a private call draws a nonce greater than the one its
\* failed attempt drew and sends that nonce, and no two POSTs carry the same
\* nonce.
C8_FreshNoncePerTransmission ==
    /\ \A t \in Threads :
          frame[t].drawn > 1 => frame[t].nonce > frame[t].prevNonce
    /\ wire.last.method = "POST" =>
          /\ Carried(wire.last.params) = wire.last.nonce
          /\ Carried(wire.last.params) \notin wire.before

\* The parameters a request is to consist of: the command, the caller's
\* arguments and, in a POST, the nonce its attempt drew.
Expected(req) ==
    LET base == DictSet(req.given, "command", req.command)
    IN  IF req.method = "POST" THEN DictSet(base, "nonce", req.nonce)
        ELSE base

SameParams(d, e) ==
    /\ DictKeys(d) = DictKeys(e)
    /\ \A k \in DictKeys(d) : DictGet(d, k) = DictGet(e, k)

\* C9: a request consists of exactly its call's command, its caller's
\* arguments and, if private, its attempt's nonce.
C9_RequestBuiltFresh ==
    wire.last.method # "none" =>
        SameParams(wire.last.params, Expected(wire.last))

\* C10, as claimed: no command that is called is in both registries.
C10_OneVisibilityClass ==
    \A t \in Threads :
        Called(t) => ~(/\ frame[t].command \in PUBLIC_COMMANDS
                       /\ frame[t].command \in PRIVATE_COMMANDS)

\* C10, amended: returnTradeHistory is the one name in both registries, and
\* membership of the private registry alone decides that a call needs
\* credentials, a nonce and a signature: a call of a private command never
\* takes the GET branch and sends nothing before it has drawn a nonce, and a
\* call of any other command never draws one.
C10_PrivateMembershipDecides ==
    /\ PUBLIC_COMMANDS \cap PRIVATE_COMMANDS = { "returnTradeHistory" }
    /\ \A t \in Threads :
          Called(t) =>
              IF frame[t].command \in PRIVATE_COMMANDS
              THEN /\ frame[t].pc # "get"
                   /\ frame[t].sent <= frame[t].drawn
                   /\ ~(Key /\ Secret) => frame[t].sent = 0
              ELSE /\ frame[t].drawn = 0
                   /\ frame[t].pc \notin { "nonce_load", "nonce_store",
                                           "nonce_return", "setnonce", "sign",
                                           "post" }

C10_Witness ==
    \E t \in Threads :
        /\ frame[t].command = "returnTradeHistory"
        /\ Done(t)
        /\ frame[t].outcome = "return"
        /\ frame[t].drawn = 1
        /\ wire.last.method = "POST"

\* C11: with the coach enabled every invocation of __call__ and of
\* marketTradeHist, first or retried, public or private, has called wait()
\* and been released before it goes on, so that a transmission is preceded by
\* a release that came after the call's previous transmission; with the coach
\* disabled no call invokes wait() and the coach's state never changes.
C11_PacedBeforeEveryTransmission ==
    \A t \in Threads :
        Entered(t) =>
            IF coach
            THEN /\ frame[t].waits = IF frame[t].pc = "wait"
                                     THEN frame[t].attempts - 1
                                     ELSE frame[t].attempts
                 /\ frame[t].sent <= frame[t].waits
                 /\ frame[t].pc \in { "post", "get", "mget" } =>
                       frame[t].sent = frame[t].waits - 1
            ELSE /\ frame[t].waits = 0
                 /\ pacer.sinceLastPermitted = MinInterval
                 /\ ENABLED Step(t) \/ Done(t)

C11_Witness ==
    \E t \in Threads :
        /\ coach
        /\ Done(t)
        /\ frame[t].method = "marketTradeHist"
        /\ frame[t].attempts = 2
        /\ frame[t].waits = 2
        /\ frame[t].sent = 2
        /\ wire.before # {}

\* C12: the coach never releases two callers less than MinInterval apart,
\* whichever threads they are: a caller that arrives before MinInterval has
\* elapsed since the last release stays in wait().
C12_ReleasesMinIntervalApart ==
    /\ pacer.lastGap >= MinInterval
    /\ \A t \in Threads :
          (frame[t].pc = "wait" /\ pacer.sinceLastPermitted < MinInterval) =>
              ~ENABLED CoachWait(t)

C12_Witness ==
    \E t \in Threads : \E u \in Threads \ {t} :
        /\ frame[t].pc = "setcmd"
        /\ frame[u].pc = "mget"
        /\ frame[t].waits = 1
        /\ frame[u].waits = 1
        /\ pacer.sinceLastPermitted = 0
        /\ pacer.lastGap = MinInterval

\* C13: the body a private request is sent with is the very body its Sign
\* header was computed from.
C13_SignedBodyIsSentBody ==
    wire.last.method = "POST" =>
        wire.last.signed = Urlencode(wire.last.params)

\* The messages of the errors __call__ raises before it sends anything.
LocalMessages == { "Invalid Command!", "A Key and Secret needed!" }

\* C14: once a response has been decoded, the call ends with a PoloniexError
\* whose message is the payload's 'error' value if the payload has an 'error'
\* key, and otherwise returns the payload itself; a PoloniexError with the
\* exchange's message is raised in no other case, and it is not retried.
\* The same holds for POST and GET.
C14_RemoteErrorIffErrorField ==
    \A t \in Threads :
        /\ frame[t].decoded =>
              IF DictHas(frame[t].jsonout, "error")
              THEN /\ frame[t].pc \in { "raised", "done" }
                   /\ frame[t].exc = "PoloniexError"
                   /\ frame[t].msg = DictGet(frame[t].jsonout, "error")
                   /\ frame[t].result = EmptyDict
                   /\ ~ENABLED Retry(t)
                   /\ Done(t) => frame[t].outcome = "raise"
              ELSE /\ Done(t)
                   /\ frame[t].outcome = "return"
                   /\ frame[t].exc = "none"
                   /\ frame[t].result = frame[t].jsonout
        /\ (frame[t].exc = "PoloniexError"
              /\ frame[t].msg \notin LocalMessages) =>
              frame[t].decoded /\ DictHas(frame[t].jsonout, "error")
        /\ (Done(t) /\ frame[t].outcome = "return") =>
              frame[t].decoded /\ ~DictHas(frame[t].jsonout, "error")

C14_Witness ==
    \E t \in Threads :
        /\ Done(t)
        /\ frame[t].command \in PRIVATE_COMMANDS
        /\ wire.last.method = "POST"
        /\ frame[t].decoded
        /\ frame[t].outcome = "raise"
        /\ frame[t].msg = "Invalid command."
        /\ frame[t].attempts = 1

\* The failure a finished call surfaced is of one of the five classes.
Classified(f) ==
    \/ /\ f.exc = "PoloniexError" /\ f.msg = "Invalid Command!"
       /\ f.command \notin PUBLIC_COMMANDS \cup PRIVATE_COMMANDS
       /\ ~f.decoded
    \/ /\ f.exc = "PoloniexError" /\ f.msg = "A Key and Secret needed!"
       /\ ~(Key /\ Secret)
       /\ ~f.decoded
    \/ /\ f.exc \in { "ConnectionError", "Timeout" }
       /\ f.delays = << >>
       /\ ~f.decoded
    \/ /\ f.exc = "PoloniexError"
       /\ f.decoded /\ DictHas(f.jsonout, "error")
       /\ f.msg = DictGet(f.jsonout, "error")
    \/ /\ f.exc = "ValueError"
       /\ f.status # 0
       /\ ~f.decoded

\* A finished call has returned a decoded payload, or raised one classified
\* failure, and not both.
OneOutcome(f) ==
    \/ /\ f.outcome = "return"
       /\ f.exc = "none"
       /\ f.decoded
       /\ f.result = f.jsonout
       /\ f.result # EmptyDict
    \/ /\ f.outcome = "raise"
       /\ f.result = EmptyDict
       /\ Classified(f)

\* C15: every call that a running thread has begun ends (whenever a call is
\* under way, a state follows in which none is), given that each request
\* returns or times out; it ends with a decoded payload or with one
\* classified failure, never with both or neither; and an exception raised in
\* an invocation is either retried or passed on to the caller.
C15_EndsWithOneOutcome ==
    /\ [](\A t \in Threads :
            /\ Done(t) => OneOutcome(frame[t])
            /\ frame[t].pc = "raised" =>
                  /\ frame[t].exc # "none"
                  /\ ENABLED Retry(t) \/ ENABLED Propagate(t))
    /\ (\E t \in Threads : Entered(t) /\ ~Done(t))
          ~> (\A t \in Threads : Entered(t) => Done(t))

C15_Witness ==
    \E t \in Threads :
        /\ Done(t)
        /\ frame[t].method = "__call__"
        /\ coach
        /\ frame[t].outcome = "raise"
        /\ frame[t].exc = "ConnectionError"
        /\ frame[t].delays = << >>
        /\ frame[t].waits = 5
        /\ frame[t].sent = 5

BeforeNonce == { "wait", "setcmd", "nonce_load", "nonce_store", "nonce_return" }

AfterNonce == { "setnonce", "sign", "post" }

C17_OwnCommandAndNonceOnWire ==
    wire.last.method # "none" =>
        /\ DictHas(wire.last.params, "command")
        /\ DictGet(wire.last.params, "command") = wire.last.command
        /\ wire.last.method = "POST" =>
              /\ DictHas(wire.last.params, "nonce")
              /\ DictGet(wire.last.params, "nonce") = wire.last.nonce

\* The number of POSTs sent so far, each of which carried a nonce of its own.
PostsSent ==
    Cardinality(wire.before) + IF wire.last.method = "POST" THEN 1 ELSE 0

\* The invocations that have stored a new counter value and not yet sent the
\* request it is for.
Pending ==
    { t \in Threads :
        frame[t].pc \in { "nonce_return", "setnonce", "sign", "post" } }

\* A call that is to leave the counter alone: marketTradeHist, a command
\* that is not private, or a private command without credentials.
Nonceless(t) ==
    /\ Entered(t)
    /\ \/ frame[t].method = "marketTradeHist"
       \/ frame[t].command \notin PRIVATE_COMMANDS
       \/ ~(Key /\ Secret)

\* C18: in a sequential execution the counter is its seed plus 42 for each
\* invocation of a private command with credentials that has reached the
\* nonce step, which is one per POST sent; a call of marketTradeHist, of a
\* public or unknown command, or of a private command without credentials
\* draws nothing and leaves the counter as it found it.
C18_CounterIsSeedPlus42k ==
    /\ _nonce = Seed + 42 * (PostsSent + Cardinality(Pending))
    /\ \A t \in Threads :
          /\ Nonceless(t) =>
                /\ _nonce = frame[t].nonce0
                /\ frame[t].drawn = 0
                /\ t \notin Pending
          /\ (Entered(t) /\ ~Nonceless(t)) =>
                _nonce = frame[t].nonce0
                           + 42 * (frame[t].drawn
                                   + IF frame[t].pc = "nonce_return"
                                     THEN 1 ELSE 0)

C18_Witness ==
    \E t \in Threads :
        /\ Done(t)
        /\ frame[t].method = "marketTradeHist"
        /\ frame[t].sent = 1
        /\ PostsSent = 2
        /\ frame[t].nonce0 = Seed + 84
        /\ _nonce = Seed + 84

====
